---- MODULE Spec2Model ----
(***************************************************************************)
(* Model of docker/pythonpath_dev/superset_config.py: the module-level     *)
(* initialization of the development configuration.  The module reads ten  *)
(* environment variables, derives the SQLAlchemy URI, the cache            *)
(* configuration and the Celery URLs from them, defines the default        *)
(* feature flags, and finally star-imports superset_config_docker when     *)
(* that module can be imported.                                            *)
(*                                                                         *)
(* Python str values are sequences of one-character strings, so that       *)
(* formatting is a computation on characters ("" is <<>>).  Names of       *)
(* variables (environment keys, module-level names, dict keys) are TLA+    *)
(* strings.  Log and error messages are sequences of text segments.        *)
(***************************************************************************)
EXTENDS Integers, Sequences, FiniteSets, TLC

VARIABLES
    environ,    \* os.environ: a function from the names that are set to str
    pc,         \* the statement of the module executed next, "done" or "failed"
    ns,         \* the module namespace: name -> object bound at module level
    error,      \* the exception that ended initialization, if any
    log,        \* the records passed to logger.info, in order
    defaults,   \* the namespace as it was when the override step began
    override,   \* what `import superset_config_docker` found
    call        \* the last call of get_env_variable and its outcome

vars == <<environ, pc, ns, error, log, defaults, override, call>>

(***************************************************************************)
(* Bounds of the model.                                                    *)
(***************************************************************************)
\* how many environment variables carry a non-canonical value at once
MaxAlt == 1
\* how many top-level names an override module defines at most
MaxOverrideNames == 1

(***************************************************************************)
(* Environment variables.                                                  *)
(***************************************************************************)
DatabaseVars ==
    <<"DATABASE_DIALECT", "DATABASE_USER", "DATABASE_PASSWORD",
      "DATABASE_HOST", "DATABASE_PORT", "DATABASE_DB">>

RedisRequiredVars == <<"REDIS_HOST", "REDIS_PORT">>

RedisOptionalVars == <<"REDIS_CELERY_DB", "REDIS_RESULTS_DB">>

Range(s) == {s[i] : i \in DOMAIN s}

RequiredVars == Range(DatabaseVars) \cup Range(RedisRequiredVars)

EnvNames == RequiredVars \cup Range(RedisOptionalVars)

\* the value a variable has in the reference environment
CanonicalValue(n) ==
    CASE n = "DATABASE_DIALECT"  -> <<"p", "o", "s", "t", "g", "r", "e", "s", "q", "l">>
      [] n = "DATABASE_USER"     -> <<"u">>
      [] n = "DATABASE_PASSWORD" -> <<"p">>
      [] n = "DATABASE_HOST"     -> <<"h">>
      [] n = "DATABASE_PORT"     -> <<"5", "4", "3", "2">>
      [] n = "DATABASE_DB"       -> <<"d">>
      [] n = "REDIS_HOST"        -> <<"r", "e", "d", "i", "s">>
      [] n = "REDIS_PORT"        -> <<"6", "3", "7", "9">>
      [] n = "REDIS_CELERY_DB"   -> <<"2">>
      [] n = "REDIS_RESULTS_DB"  -> <<"3">>

\* another value the variable may have: empty, or with URI delimiters or a
\* conversion specifier in it
AltValue(n) ==
    CASE n = "DATABASE_DIALECT"  -> <<>>
      [] n = "DATABASE_USER"     -> <<"u", "@", "x">>
      [] n = "DATABASE_PASSWORD" -> <<"p", "%", "s">>
      [] n = "DATABASE_HOST"     -> <<>>
      [] n = "DATABASE_PORT"     -> <<":">>
      [] n = "DATABASE_DB"       -> <<"a", "/", "b">>
      [] n = "REDIS_HOST"        -> <<>>
      [] n = "REDIS_PORT"        -> <<"/">>
      [] n = "REDIS_CELERY_DB"   -> <<>>
      [] n = "REDIS_RESULTS_DB"  -> <<"0">>

\* the environment in which the variables of S are set, those of A to their
\* alternative value
Environment(S, A) ==
    [n \in S |-> IF n \in A THEN AltValue(n) ELSE CanonicalValue(n)]

(***************************************************************************)
(* Python values.                                                          *)
(***************************************************************************)
\* an absent argument (default=None) and a given one
None == [given |-> FALSE, value |-> <<>>]

Some(v) == [given |-> TRUE, value |-> v]

NoError == [type |-> "none", msg |-> <<>>]

EmptyMap == [n \in {} |-> TRUE]

\* the namespace n with name bound to val (an assignment statement)
Bind(n, name, val) ==
    [m \in DOMAIN n \cup {name} |-> IF m = name THEN val ELSE n[m]]

\* a dict display: later entries of the same key replace earlier ones
DictOf(entries) ==
    [k \in {entries[i][1] : i \in DOMAIN entries} |->
        LET last == CHOOSE i \in DOMAIN entries :
                        /\ entries[i][1] = k
                        /\ \A j \in DOMAIN entries : entries[j][1] = k => j <= i
        IN  entries[last][2]]

\* "template".format(arg): each replacement field {} becomes arg
RECURSIVE StrFormat(_, _)
StrFormat(template, arg) ==
    IF template = <<>> THEN <<>>
    ELSE IF Head(template) = "{}"
         THEN <<arg>> \o StrFormat(Tail(template), arg)
         ELSE <<Head(template)>> \o StrFormat(Tail(template), arg)

\* fmt % args for a format of %s specifiers and str arguments: every %s is
\* replaced by the next argument, the other characters are copied
RECURSIVE PercentFormat(_, _)
PercentFormat(fmt, args) ==
    IF fmt = <<>> THEN <<>>
    ELSE IF Len(fmt) >= 2 /\ fmt[1] = "%" /\ fmt[2] = "s"
         THEN Head(args) \o PercentFormat(SubSeq(fmt, 3, Len(fmt)), Tail(args))
         ELSE <<Head(fmt)>> \o PercentFormat(Tail(fmt), args)

(***************************************************************************)
(* get_env_variable                                                        *)
(***************************************************************************)
MissingTemplate == <<"The environment variable ", "{}", " was missing, abort...">>

\* os.environ.get(var_name) or default: an empty value counts as missing
get_env_variable_or_default(var_name, default) ==
    IF var_name \in DOMAIN environ /\ environ[var_name] # <<>>
    THEN [raised |-> FALSE, value |-> environ[var_name], error |-> NoError]
    ELSE IF default.given
         THEN [raised |-> FALSE, value |-> default.value, error |-> NoError]
         ELSE [raised |-> TRUE, value |-> <<>>,
               error |-> [type |-> "EnvironmentError",
                          msg |-> StrFormat(MissingTemplate, var_name)]]

\* os.environ.get(var_name, default or ""): a missing variable never raises
get_env_variable_lenient(var_name, default) ==
    IF var_name \in DOMAIN environ
    THEN [raised |-> FALSE, value |-> environ[var_name], error |-> NoError]
    ELSE [raised |-> FALSE, value |-> default.value, error |-> NoError]

get_env_variable(var_name, default) ==
    IF var_name \in DOMAIN environ
    THEN [raised |-> FALSE, value |-> environ[var_name], error |-> NoError]
    ELSE IF default.given
         THEN [raised |-> FALSE, value |-> default.value, error |-> NoError]
         ELSE [raised |-> TRUE, value |-> <<>>,
               error |-> [type |-> "EnvironmentError",
                          msg |-> StrFormat(MissingTemplate, var_name)]]

(***************************************************************************)
(* The statements NAME = get_env_variable(...), in program order.          *)
(***************************************************************************)
EnvStmts ==
    [L49 |-> [var_name |-> "DATABASE_DIALECT",  default |-> None, next |-> "L50"],
     L50 |-> [var_name |-> "DATABASE_USER",     default |-> None, next |-> "L51"],
     L51 |-> [var_name |-> "DATABASE_PASSWORD", default |-> None, next |-> "L52"],
     L52 |-> [var_name |-> "DATABASE_HOST",     default |-> None, next |-> "L53"],
     L53 |-> [var_name |-> "DATABASE_PORT",     default |-> None, next |-> "L54"],
     L54 |-> [var_name |-> "DATABASE_DB",       default |-> None, next |-> "L57"],
     L66 |-> [var_name |-> "REDIS_HOST",        default |-> None, next |-> "L67"],
     L67 |-> [var_name |-> "REDIS_PORT",        default |-> None, next |-> "L68"],
     L68 |-> [var_name |-> "REDIS_CELERY_DB",   default |-> Some(<<"0">>), next |-> "L69"],
     L69 |-> [var_name |-> "REDIS_RESULTS_DB",  default |-> Some(<<"1">>), next |-> "L71"]]

NoCall == [made |-> FALSE, var_name |-> "", default |-> None,
           result |-> [raised |-> FALSE, value |-> <<>>, error |-> NoError]]

\* the names bound by the import statements and by lines 32 and 35
InitialNames ==
    {"logging", "os", "timedelta", "Optional", "Dict", "FileSystemCache",
     "crontab", "logger", "get_env_variable"}

NotImported ==
    [status |-> "unimported", located |-> FALSE, raises |-> "none", file |-> "",
     defs |-> EmptyMap, hasAll |-> FALSE, all |-> {}]

Init ==
    /\ \E S \in SUBSET EnvNames :
         \E A \in {B \in SUBSET S : Cardinality(B) <= MaxAlt} :
            environ = Environment(S, A)
    /\ pc = "L49"
    /\ ns = [n \in InitialNames |-> n]
    /\ error = NoError
    /\ log = <<>>
    /\ defaults = EmptyMap
    /\ override = NotImported
    /\ call = NoCall

\* lines 49-54 and 66-69: NAME = get_env_variable("NAME"[, default])
GetEnvStmt ==
    /\ pc \in DOMAIN EnvStmts
    /\ LET stmt == EnvStmts[pc]
           r    == get_env_variable(stmt.var_name, stmt.default)
       IN  /\ call' = [made |-> TRUE, var_name |-> stmt.var_name,
                       default |-> stmt.default, result |-> r]
           /\ IF r.raised
              THEN /\ pc' = "failed"
                   /\ error' = r.error
                   /\ ns' = ns
              ELSE /\ pc' = stmt.next
                   /\ error' = error
                   /\ ns' = Bind(ns, stmt.var_name, r.value)
    /\ UNCHANGED <<environ, log, defaults, override>>

(***************************************************************************)
(* Lines 57-64: the SQLAlchemy connection string.                          *)
(***************************************************************************)
URITemplate == <<"%", "s", ":", "/", "/", "%", "s", ":", "%", "s", "@", "%", "s", ":", "%", "s", "/", "%", "s">>

\* urllib.parse.quote of the URI delimiters
RECURSIVE Quote(_)
Quote(str) ==
    IF str = <<>> THEN <<>>
    ELSE LET c == Head(str)
         IN  (CASE c = "@" -> <<"%", "4", "0">>
                [] c = ":" -> <<"%", "3", "A">>
                [] c = "/" -> <<"%", "2", "F">>
                [] OTHER   -> <<c>>) \o Quote(Tail(str))

\* the connection string with user and password quoted
SQLALCHEMY_DATABASE_URI_quoted(n) ==
    PercentFormat(URITemplate,
                  <<n["DATABASE_DIALECT"], Quote(n["DATABASE_USER"]),
                    Quote(n["DATABASE_PASSWORD"]),
                    n["DATABASE_HOST"], n["DATABASE_PORT"], n["DATABASE_DB"]>>)

SQLALCHEMY_DATABASE_URI(n) ==
    PercentFormat(URITemplate,
                  <<n["DATABASE_DIALECT"], n["DATABASE_USER"], n["DATABASE_PASSWORD"],
                    n["DATABASE_HOST"], n["DATABASE_PORT"], n["DATABASE_DB"]>>)

BuildDatabaseURI ==
    /\ pc = "L57"
    /\ ns' = Bind(ns, "SQLALCHEMY_DATABASE_URI", SQLALCHEMY_DATABASE_URI(ns))
    /\ pc' = "L66"
    /\ UNCHANGED <<environ, error, log, defaults, override, call>>

(***************************************************************************)
(* Lines 71-81: RESULTS_BACKEND, CACHE_CONFIG, DATA_CACHE_CONFIG.          *)
(***************************************************************************)
CACHE_CONFIG(n) ==
    [CACHE_TYPE            |-> <<"r", "e", "d", "i", "s">>,
     CACHE_DEFAULT_TIMEOUT |-> 300,
     CACHE_KEY_PREFIX      |-> <<"s", "u", "p", "e", "r", "s", "e", "t", "_">>,
     CACHE_REDIS_HOST      |-> n["REDIS_HOST"],
     CACHE_REDIS_PORT      |-> n["REDIS_PORT"],
     CACHE_REDIS_DB        |-> n["REDIS_RESULTS_DB"]]

BuildCacheConfig ==
    /\ pc = "L71"
    /\ LET n1 == Bind(ns, "RESULTS_BACKEND",
                      [class |-> "FileSystemCache",
                       cache_dir |-> <<"/", "a", "p", "p", "/", "s", "u", "p", "e", "r", "s", "e", "t", "_", "h", "o", "m", "e", "/", "s", "q", "l", "l", "a", "b">>])
           n2 == Bind(n1, "CACHE_CONFIG", CACHE_CONFIG(n1))
       IN  ns' = Bind(n2, "DATA_CACHE_CONFIG", n2["CACHE_CONFIG"])
    /\ pc' = "L84"
    /\ UNCHANGED <<environ, error, log, defaults, override, call>>

(***************************************************************************)
(* Lines 84-207: the AUTH settings, DEFAULT_FEATURE_FLAGS, GUEST_ROLE_NAME.*)
(***************************************************************************)
\* a dict display in which a key is written twice
DuplicatedFlagEntries ==
    <<<<"KV_STORE", FALSE>>,
      <<"ALERT_REPORTS", FALSE>>,
      <<"KV_STORE", TRUE>>,
      <<"ALLOW_DASHBOARD_DOMAIN_SHARDING", TRUE>>,
      <<"SSH_TUNNELING", FALSE>>>>

\* the entries of the dict display of lines 101-204, as written
DEFAULT_FEATURE_FLAGS_ENTRIES ==
    <<<<"ALLOW_DASHBOARD_DOMAIN_SHARDING", TRUE>>,
      <<"CLIENT_CACHE", FALSE>>,
      <<"DISABLE_DATASET_SOURCE_EDIT", FALSE>>,
      <<"DRUID_JOINS", FALSE>>,
      <<"DYNAMIC_PLUGINS", FALSE>>,
      <<"DISABLE_LEGACY_DATASOURCE_EDITOR", TRUE>>,
      <<"ENABLE_EXPLORE_JSON_CSRF_PROTECTION", FALSE>>,
      <<"ENABLE_TEMPLATE_PROCESSING", FALSE>>,
      <<"ENABLE_TEMPLATE_REMOVE_FILTERS", FALSE>>,
      <<"ENABLE_JAVASCRIPT_CONTROLS", FALSE>>,
      <<"KV_STORE", FALSE>>,
      <<"PRESTO_EXPAND_DATA", FALSE>>,
      <<"THUMBNAILS", FALSE>>,
      <<"DASHBOARD_CACHE", FALSE>>,
      <<"REMOVE_SLICE_LEVEL_LABEL_COLORS", FALSE>>,
      <<"SHARE_QUERIES_VIA_KV_STORE", FALSE>>,
      <<"TAGGING_SYSTEM", FALSE>>,
      <<"SQLLAB_BACKEND_PERSISTENCE", TRUE>>,
      <<"LISTVIEWS_DEFAULT_CARD_VIEW", FALSE>>,
      <<"DISPLAY_MARKDOWN_HTML", TRUE>>,
      <<"ESCAPE_MARKDOWN_HTML", FALSE>>,
      <<"DASHBOARD_NATIVE_FILTERS", TRUE>>,
      <<"DASHBOARD_CROSS_FILTERS", FALSE>>,
      <<"DASHBOARD_NATIVE_FILTERS_SET", FALSE>>,
      <<"DASHBOARD_FILTERS_EXPERIMENTAL", FALSE>>,
      <<"DASHBOARD_VIRTUALIZATION", FALSE>>,
      <<"GLOBAL_ASYNC_QUERIES", FALSE>>,
      <<"VERSIONED_EXPORT", TRUE>>,
      <<"EMBEDDED_SUPERSET", TRUE>>,
      <<"ALERT_REPORTS", FALSE>>,
      <<"DASHBOARD_RBAC", FALSE>>,
      <<"ENABLE_EXPLORE_DRAG_AND_DROP", TRUE>>,
      <<"ENABLE_FILTER_BOX_MIGRATION", FALSE>>,
      <<"ENABLE_ADVANCED_DATA_TYPES", FALSE>>,
      <<"ENABLE_DND_WITH_CLICK_UX", TRUE>>,
      <<"ALERTS_ATTACH_REPORTS", TRUE>>,
      <<"FORCE_DATABASE_CONNECTIONS_SSL", FALSE>>,
      <<"ENFORCE_DB_ENCRYPTION_UI", FALSE>>,
      <<"ALLOW_FULL_CSV_EXPORT", FALSE>>,
      <<"UX_BETA", FALSE>>,
      <<"GENERIC_CHART_AXES", FALSE>>,
      <<"ALLOW_ADHOC_SUBQUERY", FALSE>>,
      <<"USE_ANALAGOUS_COLORS", FALSE>>,
      <<"DASHBOARD_EDIT_CHART_IN_NEW_TAB", FALSE>>,
      <<"RLS_IN_SQLLAB", FALSE>>,
      <<"CACHE_IMPERSONATION", FALSE>>,
      <<"EMBEDDABLE_CHARTS", TRUE>>,
      <<"DRILL_TO_DETAIL", FALSE>>,
      <<"DATAPANEL_CLOSED_BY_DEFAULT", FALSE>>,
      <<"HORIZONTAL_FILTER_BAR", FALSE>>,
      <<"ESTIMATE_QUERY_COST", FALSE>>,
      <<"SSH_TUNNELING", FALSE>>>>

StaticDefaults ==
    /\ pc = "L84"
    /\ LET n1 == Bind(ns, "AUTH_ROLE_ADMIN", <<"A", "d", "m", "i", "n">>)
           n2 == Bind(n1, "AUTH_ROLE_PUBLIC", <<"P", "u", "b", "l", "i", "c">>)
           n3 == Bind(n2, "AUTH_USER_REGISTRATION", TRUE)
           n4 == Bind(n3, "AUTH_USER_REGISTRATION_ROLE", <<"G", "a", "m", "m", "a">>)
           n5 == Bind(n4, "WTF_CSRF_ENABLED", FALSE)
           n6 == Bind(n5, "DEFAULT_FEATURE_FLAGS", DictOf(DEFAULT_FEATURE_FLAGS_ENTRIES))
       IN  ns' = Bind(n6, "GUEST_ROLE_NAME", <<"G", "a", "m", "m", "a">>)
    /\ pc' = "L209"
    /\ UNCHANGED <<environ, error, log, defaults, override, call>>

(***************************************************************************)
(* Lines 209-227: class CeleryConfig and CELERY_CONFIG.                    *)
(***************************************************************************)
\* f"redis://{REDIS_HOST}:{REDIS_PORT}/{db}"
RedisURL(host, port, db) ==
    <<"r", "e", "d", "i", "s", ":", "/", "/">> \o host \o <<":">> \o port \o <<"/">> \o db

\* the two database indices exchanged
CeleryConfig_swapped(n) ==
    [broker_url     |-> RedisURL(n["REDIS_HOST"], n["REDIS_PORT"], n["REDIS_RESULTS_DB"]),
     imports        |-> <<"superset.sql_lab">>,
     result_backend |-> RedisURL(n["REDIS_HOST"], n["REDIS_PORT"], n["REDIS_CELERY_DB"]),
     worker_prefetch_multiplier |-> 1,
     task_acks_late |-> FALSE,
     beat_schedule  |-> EmptyMap]

CeleryConfig(n) ==
    [broker_url     |-> RedisURL(n["REDIS_HOST"], n["REDIS_PORT"], n["REDIS_CELERY_DB"]),
     imports        |-> <<"superset.sql_lab">>,
     result_backend |-> RedisURL(n["REDIS_HOST"], n["REDIS_PORT"], n["REDIS_RESULTS_DB"]),
     worker_prefetch_multiplier |-> 1,
     task_acks_late |-> FALSE,
     beat_schedule  |->
        [k \in {"reports.scheduler", "reports.prune_log"} |->
            [task |-> k,
             schedule |-> IF k = "reports.scheduler"
                          THEN [class |-> "crontab", minute |-> "*", hour |-> "*"]
                          ELSE [class |-> "crontab", minute |-> "10", hour |-> "0"]]]]

DefineCeleryConfig ==
    /\ pc = "L209"
    /\ LET n1 == Bind(ns, "CeleryConfig", CeleryConfig(ns))
       IN  ns' = Bind(n1, "CELERY_CONFIG", n1["CeleryConfig"])
    /\ pc' = "L229"
    /\ UNCHANGED <<environ, error, log, defaults, override, call>>

(***************************************************************************)
(* Lines 229-235: FEATURE_FLAGS and the report settings.                   *)
(***************************************************************************)
FEATURE_FLAGS_ENTRIES == << <<"ALERT_REPORTS", TRUE>> >>

ReportDefaults ==
    /\ pc = "L229"
    /\ LET n1 == Bind(ns, "FEATURE_FLAGS", DictOf(FEATURE_FLAGS_ENTRIES))
           n2 == Bind(n1, "ALERT_REPORTS_NOTIFICATION_DRY_RUN", TRUE)
           n3 == Bind(n2, "WEBDRIVER_BASEURL", <<"h", "t", "t", "p", ":", "/", "/", "s", "u", "p", "e", "r", "s", "e", "t", ":", "8", "0", "8", "8", "/">>)
           n4 == Bind(n3, "WEBDRIVER_BASEURL_USER_FRIENDLY", n3["WEBDRIVER_BASEURL"])
       IN  ns' = Bind(n4, "SQLLAB_CTAS_NO_LIMIT", TRUE)
    /\ pc' = "L241"
    /\ UNCHANGED <<environ, error, log, defaults, override, call>>

(***************************************************************************)
(* Lines 241-249: the optional import of superset_config_docker.           *)
(*                                                                         *)
(* The module found on the path is a record: whether it was located, the   *)
(* exception its loading raises ("none" when it loads), its __file__, the  *)
(* top-level names it defines with their values, and its __all__ when it   *)
(* declares one.                                                           *)
(***************************************************************************)
\* names an override module may define: inputs of derived values, derived
\* values, the two flag tables, a name this module does not define, and a
\* name that starts with an underscore
OverrideNames ==
    {"DATABASE_HOST", "REDIS_RESULTS_DB", "SQLALCHEMY_DATABASE_URI",
     "CACHE_CONFIG", "WEBDRIVER_BASEURL", "EXTRA_SETTING", "_PRIVATE_HELPER",
     "FEATURE_FLAGS", "DEFAULT_FEATURE_FLAGS"}

FlagTableNames == {"FEATURE_FLAGS", "DEFAULT_FEATURE_FLAGS"}

\* a name listed in __all__ that the module does not define
UndefinedName == "UNDEFINED_NAME"

\* the flags an override module may redefine: the first and the last entry of
\* the default table and the flag FEATURE_FLAGS sets
OverridableFlags == <<"ALLOW_DASHBOARD_DOMAIN_SHARDING", "ALERT_REPORTS", "SSH_TUNNELING">>

\* the i-th one-flag mapping {f: v}
FlagOverride(i) ==
    LET f == OverridableFlags[(i + 1) \div 2]
    IN  [k \in {f} |-> (i % 2 = 1)]

NumChoices(n) == IF n \in FlagTableNames THEN 2 * Len(OverridableFlags) ELSE 1

\* the i-th value an override module may give to name n
OverrideValue(n, i) ==
    CASE n = "DATABASE_HOST"           -> <<"d", "b", "2">>
      [] n = "REDIS_RESULTS_DB"        -> <<"7">>
      [] n = "SQLALCHEMY_DATABASE_URI" -> <<"s", "q", "l", "i", "t", "e", ":", "/", "/">>
      [] n = "CACHE_CONFIG"            -> [CACHE_TYPE |-> <<"n", "u", "l", "l">>]
      [] n = "WEBDRIVER_BASEURL"       -> <<"h", "t", "t", "p", ":", "/", "/", "b", "i", "/">>
      [] n = "EXTRA_SETTING"           -> TRUE
      [] n = "_PRIVATE_HELPER"         -> TRUE
      [] n \in FlagTableNames          -> FlagOverride(i)

OverrideFile == "/app/docker/pythonpath_dev/superset_config_docker.py"

\* whether a name starts with an underscore
StartsWithUnderscore(name) == name \in {"_PRIVATE_HELPER", "__all__", "__file__"}

\* the exception `import superset_config_docker` raises, "none" if it loads
ImportException(m) ==
    IF ~m.located THEN "ModuleNotFoundError" ELSE m.raises

\* a clause that catches ImportError itself, not its subclasses
CaughtByExcept_exact(exc) == exc = "ImportError"

\* except ModuleNotFoundError: only a module that is not found is caught
CaughtByExcept_notfound(exc) == exc = "ModuleNotFoundError"

\* except ImportError: the clause catches ImportError and its subclasses
CaughtByExcept(exc) == exc \in {"ImportError", "ModuleNotFoundError"}

\* every name of the module, whatever its form and whatever __all__ says
ImportStarNames_everything(m) == DOMAIN m.defs

\* the names `from m import *` copies: those of __all__ when the module
\* declares it, else those that do not start with an underscore
ImportStarNames(m) ==
    IF m.hasAll THEN m.all
    ELSE {n \in DOMAIN m.defs : ~StartsWithUnderscore(n)}

\* dict values are updated key by key instead of being rebound
CopyNames_update(n, m, names) ==
    [k \in DOMAIN n \cup names |->
        IF k \in names
        THEN IF k \in FlagTableNames /\ k \in DOMAIN n
             THEN [f \in DOMAIN n[k] \cup DOMAIN m.defs[k] |->
                      IF f \in DOMAIN m.defs[k] THEN m.defs[k][f] ELSE n[k][f]]
             ELSE m.defs[k]
        ELSE n[k]]

\* the namespace n after the names of `names` were copied from module m
CopyNames(n, m, names) ==
    [k \in DOMAIN n \cup names |-> IF k \in names THEN m.defs[k] ELSE n[k]]

\* the derived values are built again from the names the module replaced
ImportOverride_recompute(n, m) ==
    LET n1 == CopyNames(Bind(n, "superset_config_docker", "superset_config_docker"),
                        m, ImportStarNames(m))
        n2 == Bind(n1, "SQLALCHEMY_DATABASE_URI", SQLALCHEMY_DATABASE_URI(n1))
        n3 == Bind(n2, "DATA_CACHE_CONFIG", n2["CACHE_CONFIG"])
        n4 == Bind(n3, "CeleryConfig", CeleryConfig(n3))
    IN  Bind(n4, "WEBDRIVER_BASEURL_USER_FRIENDLY", n4["WEBDRIVER_BASEURL"])

\* lines 242-243 when the module loads: the module object is bound to its
\* name and its public names are copied
ImportOverride(n, m) ==
    CopyNames(Bind(n, "superset_config_docker", "superset_config_docker"),
              m, ImportStarNames(m))

LoadedMessage(m) == <<"Loaded your Docker configuration at ", "[", m.file, "]">>

DefaultsMessage == <<"Using default Docker config...">>

OverrideModule(located, raises, defs, hasAll, all) ==
    [status |-> IF ~located THEN "absent" ELSE IF raises = "none" THEN "loaded" ELSE "raised",
     located |-> located, raises |-> raises, file |-> OverrideFile,
     defs |-> defs, hasAll |-> hasAll, all |-> all]

\* the statement for module m: what lines 241-249 do
RunOverride(m) ==
    LET exc == ImportException(m)
    IN  /\ override' = m
        /\ defaults' = ns
        /\ IF exc # "none"
           THEN IF CaughtByExcept(exc)
                THEN /\ ns' = ns
                     /\ log' = Append(log, DefaultsMessage)
                     /\ error' = error
                     /\ pc' = "done"
                ELSE /\ ns' = ns
                     /\ log' = log
                     /\ error' = [type |-> exc, msg |-> <<>>]
                     /\ pc' = "failed"
           ELSE IF ImportStarNames(m) \subseteq DOMAIN m.defs
                THEN /\ ns' = ImportOverride(ns, m)
                     /\ log' = Append(log, LoadedMessage(m))
                     /\ error' = error
                     /\ pc' = "done"
                ELSE \* __all__ lists a name the module lacks: the names listed
                     \* before it are copied, then AttributeError leaves the try
                     /\ \E copied \in SUBSET (ImportStarNames(m) \cap DOMAIN m.defs) :
                            ns' = CopyNames(Bind(ns, "superset_config_docker",
                                                 "superset_config_docker"), m, copied)
                     /\ log' = log
                     /\ error' = [type |-> "AttributeError", msg |-> <<>>]
                     /\ pc' = "failed"

OverrideStep ==
    /\ pc = "L241"
    /\ \/ RunOverride(OverrideModule(FALSE, "none", EmptyMap, FALSE, {}))
       \/ \E D \in {E \in SUBSET OverrideNames : Cardinality(E) <= MaxOverrideNames} :
          \E c \in {b \in [D -> 1..(2 * Len(OverridableFlags))] :
                        \A n \in D : b[n] <= NumChoices(n)} :
             LET defs == [n \in D |-> OverrideValue(n, c[n])]
             IN  \/ \E exc \in {"ImportError", "ModuleNotFoundError", "NameError"} :
                        RunOverride(OverrideModule(TRUE, exc, defs, FALSE, {}))
                 \/ RunOverride(OverrideModule(TRUE, "none", defs, FALSE, {}))
                 \/ \E all \in SUBSET (D \cup {UndefinedName}) :
                        RunOverride(OverrideModule(TRUE, "none", defs, TRUE, all))
    /\ UNCHANGED <<environ, call>>

(***************************************************************************)
(* The feature flags the application uses: DEFAULT_FEATURE_FLAGS with the  *)
(* entries of FEATURE_FLAGS laid over it (comment of lines 96-100).        *)
(***************************************************************************)
CombinedFeatureFlags(n) ==
    LET d == n["DEFAULT_FEATURE_FLAGS"]
        f == n["FEATURE_FLAGS"]
    IN  [k \in DOMAIN d \cup DOMAIN f |-> IF k \in DOMAIN f THEN f[k] ELSE d[k]]

Next ==
    \/ GetEnvStmt
    \/ BuildDatabaseURI
    \/ BuildCacheConfig
    \/ StaticDefaults
    \/ DefineCeleryConfig
    \/ ReportDefaults
    \/ OverrideStep

Spec == Init /\ [][Next]_vars

(***************************************************************************)
(* Properties.                                                             *)
(***************************************************************************)
\* the override step has not run: ns is the configuration built from the
\* environment and the literals of this module alone
BeforeOverride == override.status = "unimported"

\* the names `from superset_config_docker import *` copied
Imported == ImportStarNames(override) \cap DOMAIN override.defs

\* the value a variable resolves to: the environment's, else the default
Resolved(n, default) == IF n \in DOMAIN environ THEN environ[n] ELSE default

\* what a call get_env_variable(n, d) with outcome r must have done
CallContract(n, d, r) ==
    /\ n \in DOMAIN environ => ~r.raised /\ r.value = environ[n]
    /\ (n \notin DOMAIN environ /\ ~d.given) =>
          /\ r.raised
          /\ r.error.type = "EnvironmentError"
          /\ \E i \in DOMAIN r.error.msg : r.error.msg[i] = n

\* C1: get_env_variable(n, default) returns exactly the environment's value
\* when n is set, with or without a default and also when the value is the
\* empty string; when n is unset and no default is given it raises
\* EnvironmentError with a message that contains n, and nothing is returned:
\* the assignment does not take place.
C1_GetEnvVariableContract ==
    /\ \A n \in EnvNames : \A d \in {None, Some(<<"0">>)} :
          CallContract(n, d, get_env_variable(n, d))
    /\ call.made =>
          /\ CallContract(call.var_name, call.default, call.result)
          /\ call.result.raised =>
                /\ pc = "failed"
                /\ error = call.result.error
                /\ call.var_name \notin DOMAIN ns
          /\ (~call.result.raised /\ pc \in DOMAIN EnvStmts \cup {"L57", "L71"}) =>
                ns[call.var_name] = call.result.value

\* C1 witness: a variable set to the empty string was returned as such, and
\* a later required variable that is unset made the call raise
C1_Witness ==
    /\ "DATABASE_HOST" \in DOMAIN environ
    /\ environ["DATABASE_HOST"] = <<>>
    /\ "DATABASE_HOST" \in DOMAIN ns
    /\ ns["DATABASE_HOST"] = <<>>
    /\ pc = "failed"
    /\ call.var_name = "REDIS_HOST"
    /\ call.result.raised

DerivedNames ==
    {"SQLALCHEMY_DATABASE_URI", "CACHE_CONFIG", "DATA_CACHE_CONFIG",
     "CeleryConfig", "CELERY_CONFIG"}

RedisDerivedNames == DerivedNames \ {"SQLALCHEMY_DATABASE_URI"}

\* the statements of the module in program order
ProgramOrder ==
    <<"L49", "L50", "L51", "L52", "L53", "L54", "L57", "L66", "L67", "L68",
      "L69", "L71", "L84", "L209", "L229", "L241", "done">>

Position(label) == CHOOSE i \in DOMAIN ProgramOrder : ProgramOrder[i] = label

\* the statement that reads environment variable v
StmtOf(v) == CHOOSE l \in DOMAIN EnvStmts : EnvStmts[l].var_name = v

\* C2 as claimed: while a required variable is unset, no derived value is
\* defined in any reachable state.
C2_NoDerivedValueWhileRequiredMissing ==
    (\E v \in RequiredVars : v \notin DOMAIN environ) =>
        DerivedNames \cap DOMAIN ns = {}

\* C2 amended: with a required variable unset, execution never gets past the
\* statement that reads it, so initialization does not complete and no
\* derived value built from that variable is defined; SQLALCHEMY_DATABASE_URI
\* is defined only when the six DATABASE_* variables are set, and the cache
\* and Celery values only when all eight required variables are set.
C2_FailsAtFirstMissingVariable ==
    /\ \A v \in RequiredVars :
          v \notin DOMAIN environ =>
             /\ pc # "done"
             /\ pc # "failed" => Position(pc) <= Position(StmtOf(v))
             /\ pc = "failed" =>
                   /\ error.type = "EnvironmentError"
                   /\ call.var_name \notin DOMAIN environ
                   /\ Position(StmtOf(call.var_name)) <= Position(StmtOf(v))
    /\ "SQLALCHEMY_DATABASE_URI" \in DOMAIN ns =>
          Range(DatabaseVars) \subseteq DOMAIN environ
    /\ RedisDerivedNames \cap DOMAIN ns # {} => RequiredVars \subseteq DOMAIN environ

\* C2 witness: initialization failed on REDIS_HOST after the URI was built
C2_Witness ==
    /\ pc = "failed"
    /\ "REDIS_HOST" \notin DOMAIN environ
    /\ "SQLALCHEMY_DATABASE_URI" \in DOMAIN ns
    /\ RedisDerivedNames \cap DOMAIN ns = {}

\* C3 as claimed: after the override step every top-level name the override
\* module defines is bound to the module's value, whatever the name's form
\* and whatever else the module declares.
C3_EveryDefinedNameIsBound ==
    (pc = "done" /\ override.status = "loaded") =>
        \A n \in DOMAIN override.defs :
            n \in DOMAIN ns /\ ns[n] = override.defs[n]

\* C3 amended: after an override step that completed, the names bound to the
\* override module's values are its public names: the names listed in __all__
\* when the module declares __all__, else the names that do not start with
\* an underscore.  Every other name the module defines is left as it was
\* before the step.
C3_PublicNamesAreBound ==
    (pc = "done" /\ override.status = "loaded") =>
        \A n \in DOMAIN override.defs :
            IF (override.hasAll /\ n \in override.all)
               \/ (~override.hasAll /\ ~StartsWithUnderscore(n))
            THEN n \in DOMAIN ns /\ ns[n] = override.defs[n]
            ELSE /\ n \in DOMAIN ns <=> n \in DOMAIN defaults
                 /\ n \in DOMAIN ns => ns[n] = defaults[n]

\* C3 witness: a public name of the override module replaced a default
C3_Witness ==
    /\ pc = "done"
    /\ override.status = "loaded"
    /\ ~override.hasAll
    /\ "WEBDRIVER_BASEURL" \in DOMAIN override.defs
    /\ ns["WEBDRIVER_BASEURL"] = override.defs["WEBDRIVER_BASEURL"]
    /\ ns["WEBDRIVER_BASEURL"] # defaults["WEBDRIVER_BASEURL"]

\* the default table with flag f set to v
TableWith(table, f, v) == [k \in DOMAIN table \cup {f} |-> IF k = f THEN v ELSE table[k]]

\* the only flag of a one-flag mapping
OnlyFlag(mapping) == CHOOSE f \in DOMAIN mapping : TRUE

\* C4 as claimed: for an override module that redefines one flag f, through
\* either flag table, the feature flags after the override step are the
\* default table with f set to the module's value.
C4_OneFlagOverrideChangesOnlyThatFlag ==
    (pc = "done" /\ override.status = "loaded") =>
        \A t \in FlagTableNames :
            Imported \cap FlagTableNames = {t} =>
                LET f == OnlyFlag(override.defs[t])
                IN  CombinedFeatureFlags(ns) =
                        TableWith(defaults["DEFAULT_FEATURE_FLAGS"], f, override.defs[t][f])

\* C4 amended: for an override module that redefines one flag f by binding
\* FEATURE_FLAGS to {f: v} and does not rebind DEFAULT_FEATURE_FLAGS, after
\* the override step DEFAULT_FEATURE_FLAGS is the unchanged default table,
\* FEATURE_FLAGS is exactly {f: v}, and the feature flags (the default table
\* with FEATURE_FLAGS laid over it) are the default table with f set to v.
C4_FeatureFlagsOverrideChangesOnlyThatFlag ==
    (pc = "done" /\ override.status = "loaded"
        /\ Imported \cap FlagTableNames = {"FEATURE_FLAGS"}) =>
        LET f == OnlyFlag(override.defs["FEATURE_FLAGS"])
            v == override.defs["FEATURE_FLAGS"][f]
        IN  /\ ns["DEFAULT_FEATURE_FLAGS"] = defaults["DEFAULT_FEATURE_FLAGS"]
            /\ DOMAIN ns["FEATURE_FLAGS"] = {f}
            /\ ns["FEATURE_FLAGS"][f] = v
            /\ CombinedFeatureFlags(ns) =
                    TableWith(defaults["DEFAULT_FEATURE_FLAGS"], f, v)

\* C4 witness: FEATURE_FLAGS = {"SSH_TUNNELING": True} was imported; the flag
\* is on and ALERT_REPORTS is back at its default
C4_Witness ==
    /\ pc = "done"
    /\ override.status = "loaded"
    /\ Imported = {"FEATURE_FLAGS"}
    /\ DOMAIN override.defs["FEATURE_FLAGS"] = {"SSH_TUNNELING"}
    /\ CombinedFeatureFlags(ns)["SSH_TUNNELING"] = TRUE
    /\ CombinedFeatureFlags(defaults)["SSH_TUNNELING"] = FALSE
    /\ CombinedFeatureFlags(ns)["ALERT_REPORTS"] = FALSE

\* two namespaces bind the same names to the same values
SameConfig(a, b) ==
    /\ DOMAIN a = DOMAIN b
    /\ \A n \in DOMAIN a : a[n] = b[n]

\* C5: when superset_config_docker cannot be located, initialization
\* completes without error and the final configuration binds exactly the
\* names bound before the override step, each to the same value.
C5_AbsentOverrideKeepsDefaults ==
    override.status = "absent" =>
        /\ pc = "done"
        /\ error = NoError
        /\ SameConfig(ns, defaults)
        /\ log = <<DefaultsMessage>>

\* C5 witness: the override step ran and found no module
C5_Witness ==
    /\ pc = "done"
    /\ override.status = "absent"
    /\ "SQLLAB_CTAS_NO_LIMIT" \in DOMAIN ns

\* C6: REDIS_CELERY_DB resolves to "0" and REDIS_RESULTS_DB to "1" when
\* unset, without failing, and to the environment's value when set; the
\* resolved REDIS_CELERY_DB is the index of CeleryConfig.broker_url, the
\* resolved REDIS_RESULTS_DB that of CeleryConfig.result_backend and the
\* value of CACHE_CONFIG["CACHE_REDIS_DB"].
C6_OptionalRedisDatabases ==
    LET celery  == Resolved("REDIS_CELERY_DB", <<"0">>)
        results == Resolved("REDIS_RESULTS_DB", <<"1">>)
        prefix  == <<"r", "e", "d", "i", "s", ":", "/", "/">> \o environ["REDIS_HOST"]
                      \o <<":">> \o environ["REDIS_PORT"] \o <<"/">>
    IN  /\ (call.made /\ call.var_name \in Range(RedisOptionalVars)) => ~call.result.raised
        /\ BeforeOverride =>
              /\ "REDIS_CELERY_DB" \in DOMAIN ns => ns["REDIS_CELERY_DB"] = celery
              /\ "REDIS_RESULTS_DB" \in DOMAIN ns => ns["REDIS_RESULTS_DB"] = results
              /\ "CACHE_CONFIG" \in DOMAIN ns => ns["CACHE_CONFIG"].CACHE_REDIS_DB = results
              /\ "CeleryConfig" \in DOMAIN ns =>
                    /\ ns["CeleryConfig"].broker_url = prefix \o celery
                    /\ ns["CeleryConfig"].result_backend = prefix \o results

\* C6 witness: REDIS_CELERY_DB unset, REDIS_RESULTS_DB set, CeleryConfig built
C6_Witness ==
    /\ pc = "L229"
    /\ "REDIS_CELERY_DB" \notin DOMAIN environ
    /\ "REDIS_RESULTS_DB" \in DOMAIN environ
    /\ ns["REDIS_CELERY_DB"] = <<"0">>
    /\ ns["REDIS_RESULTS_DB"] = <<"3">>
    /\ ns["CeleryConfig"].broker_url # ns["CeleryConfig"].result_backend

\* C7: SQLALCHEMY_DATABASE_URI as computed before the override step is the
\* concatenation dialect "://" user ":" password "@" host ":" port "/" db of
\* the six environment values, unescaped; postgresql, u, p, h, 5432, d give
\* postgresql://u:p@h:5432/d.
C7_DatabaseURIIsConcatenation ==
    (BeforeOverride /\ "SQLALCHEMY_DATABASE_URI" \in DOMAIN ns) =>
          /\ ns["SQLALCHEMY_DATABASE_URI"] =
                environ["DATABASE_DIALECT"] \o <<":", "/", "/">>
                   \o environ["DATABASE_USER"] \o <<":">> \o environ["DATABASE_PASSWORD"]
                   \o <<"@">> \o environ["DATABASE_HOST"] \o <<":">>
                   \o environ["DATABASE_PORT"] \o <<"/">> \o environ["DATABASE_DB"]
          /\ (\A i \in DOMAIN DatabaseVars :
                 environ[DatabaseVars[i]] = CanonicalValue(DatabaseVars[i])) =>
                ns["SQLALCHEMY_DATABASE_URI"] = <<"p", "o", "s", "t", "g", "r", "e", "s", "q", "l", ":", "/", "/", "u", ":", "p", "@", "h", ":", "5", "4", "3", "2", "/", "d">>

\* C7 witness: the URI was built from a user name that holds a delimiter
C7_Witness ==
    /\ pc = "L66"
    /\ environ["DATABASE_USER"] = <<"u", "@", "x">>
    /\ ns["SQLALCHEMY_DATABASE_URI"] = <<"p", "o", "s", "t", "g", "r", "e", "s", "q", "l", ":", "/", "/", "u", "@", "x", ":", "p", "@", "h", ":", "5", "4", "3", "2", "/", "d">>

\* the entries of a dict display have pairwise different keys, the dict built
\* from them has the value of every entry, and every value is a boolean
WellFormedFlagTable(entries, table) ==
    /\ \A i, j \in DOMAIN entries : entries[i][1] = entries[j][1] => i = j
    /\ DOMAIN table = {entries[i][1] : i \in DOMAIN entries}
    /\ \A i \in DOMAIN entries : table[entries[i][1]] = entries[i][2]
    /\ \A k \in DOMAIN table : table[k] \in BOOLEAN

\* C8: DEFAULT_FEATURE_FLAGS as defined before the override step has no
\* duplicate keys and only boolean values, and so has FEATURE_FLAGS.
C8_FlagTablesWellFormed ==
    BeforeOverride =>
        /\ "DEFAULT_FEATURE_FLAGS" \in DOMAIN ns =>
              WellFormedFlagTable(DEFAULT_FEATURE_FLAGS_ENTRIES, ns["DEFAULT_FEATURE_FLAGS"])
        /\ "FEATURE_FLAGS" \in DOMAIN ns =>
              WellFormedFlagTable(FEATURE_FLAGS_ENTRIES, ns["FEATURE_FLAGS"])

\* C8 witness: both tables are defined and the override step is next
C8_Witness ==
    /\ pc = "L241"
    /\ "DEFAULT_FEATURE_FLAGS" \in DOMAIN ns
    /\ "FEATURE_FLAGS" \in DOMAIN ns
    /\ ns["FEATURE_FLAGS"]["ALERT_REPORTS"] # ns["DEFAULT_FEATURE_FLAGS"]["ALERT_REPORTS"]

AllDerivedNames == DerivedNames \cup {"WEBDRIVER_BASEURL_USER_FRIENDLY"}

\* C9: derived values are not recomputed by the override step: a derived
\* name the override module does not itself rebind keeps the value built
\* from the inputs as they were before the step, also when the module
\* rebinds one of those inputs.
C9_DerivedValuesNotRecomputed ==
    (pc = "done" /\ override.status = "loaded") =>
        /\ \A d \in AllDerivedNames \ Imported : ns[d] = defaults[d]
        /\ "SQLALCHEMY_DATABASE_URI" \notin Imported =>
              ns["SQLALCHEMY_DATABASE_URI"] = SQLALCHEMY_DATABASE_URI(environ)
        /\ "CeleryConfig" \notin Imported =>
              ns["CeleryConfig"].result_backend =
                  RedisURL(environ["REDIS_HOST"], environ["REDIS_PORT"],
                           Resolved("REDIS_RESULTS_DB", <<"1">>))
        /\ "WEBDRIVER_BASEURL_USER_FRIENDLY" \notin Imported =>
              ns["WEBDRIVER_BASEURL_USER_FRIENDLY"] = <<"h", "t", "t", "p", ":", "/", "/", "s", "u", "p", "e", "r", "s", "e", "t", ":", "8", "0", "8", "8", "/">>

\* C9 witness: the override module replaced DATABASE_HOST and the URI still
\* names the host of the environment
C9_Witness ==
    /\ pc = "done"
    /\ override.status = "loaded"
    /\ Imported = {"DATABASE_HOST"}
    /\ ns["DATABASE_HOST"] # environ["DATABASE_HOST"]
    /\ ns["SQLALCHEMY_DATABASE_URI"] = SQLALCHEMY_DATABASE_URI(environ)
    /\ ns["SQLALCHEMY_DATABASE_URI"] # SQLALCHEMY_DATABASE_URI(ns)

\* C10: when superset_config_docker is located but loading it raises an
\* import error, initialization completes without error, logs that the
\* defaults are used, and the final configuration is the configuration before
\* the override step, with none of the module's names merged; names are
\* merged only when the module loaded.
C10_ImportErrorKeepsDefaults ==
    /\ (override.status = "raised"
           /\ override.raises \in {"ImportError", "ModuleNotFoundError"}) =>
          /\ pc = "done"
          /\ error = NoError
          /\ log = <<DefaultsMessage>>
          /\ SameConfig(ns, defaults)
    /\ (override.status # "unimported" /\ ~SameConfig(ns, defaults)) =>
          override.status = "loaded"

\* C10 witness: a module that defines a name raised ImportError while loading
C10_Witness ==
    /\ pc = "done"
    /\ override.status = "raised"
    /\ override.raises = "ImportError"
    /\ "WEBDRIVER_BASEURL" \in DOMAIN override.defs
    /\ ns["WEBDRIVER_BASEURL"] # override.defs["WEBDRIVER_BASEURL"]

====
